---- MODULE Spec2Model ----
(***************************************************************************)
(* Model of the Bright Data trigger / poll scripts:                        *)
(*   src/trigger_bright_data.py  one POST, job id saved to current_job.txt *)
(*   src/poll_results.py         read the id, poll until data or timeout,  *)
(*                               save amazon_results.json, print a sample   *)
(*                                                                         *)
(* Text is a sequence of one-character strings.  A JSON value is a tagged  *)
(* record; JSON null and Python None are the same value (json.loads maps   *)
(* one to the other).  Time is counted in whole seconds.                   *)
(***************************************************************************)
EXTENDS Integers, Sequences, FiniteSets, TLC

(***************************************************************************)
(* Bounds of the model.                                                    *)
(***************************************************************************)
MaxTimeoutMinutes == 1
IntervalStep == 25
MaxLatency == 20
MaxAttempts == 3
LongExtra == 1

(***************************************************************************)
(* Program constants.                                                      *)
(***************************************************************************)
HTTP_OK == 200
SecondsPerMinute == 60
TitleLimit == 100
SampleSize == 3

Min(a, b) == IF a < b THEN a ELSE b

(***************************************************************************)
(* Python str operations used by the scripts.                              *)
(***************************************************************************)
UpperToLower ==
  [A |-> "a", B |-> "b", C |-> "c", D |-> "d", E |-> "e", F |-> "f", G |-> "g",
   H |-> "h", I |-> "i", J |-> "j", K |-> "k", L |-> "l", M |-> "m", N |-> "n",
   O |-> "o", P |-> "p", Q |-> "q", R |-> "r", S |-> "s", T |-> "t", U |-> "u",
   V |-> "v", W |-> "w", X |-> "x", Y |-> "y", Z |-> "z"]

LowerChar(c) == IF c \in DOMAIN UpperToLower THEN UpperToLower[c] ELSE c

\* str.lower()
Lower(s) == [i \in 1..Len(s) |-> LowerChar(s[i])]

Whitespace == {" ", "\t", "\n", "\r"}

RECURSIVE LStrip(_)
LStrip(s) == IF s # <<>> /\ Head(s) \in Whitespace THEN LStrip(Tail(s)) ELSE s

RECURSIVE RStrip(_)
RStrip(s) ==
  IF s # <<>> /\ s[Len(s)] \in Whitespace THEN RStrip(SubSeq(s, 1, Len(s) - 1)) ELSE s

\* str.strip()
Strip(s) == RStrip(LStrip(s))

\* sub in s
Contains(s, sub) ==
  \E i \in 0..(Len(s) - Len(sub)) : SubSeq(s, i + 1, i + Len(sub)) = sub

\* x[:n] on a str or a list
Slice(s, n) == SubSeq(s, 1, Min(n, Len(s)))

\* text-mode read with universal newlines: "\r\n" and "\r" become "\n"
RECURSIVE TranslateNewlines(_)
TranslateNewlines(s) ==
  IF s = <<>> THEN <<>>
  ELSE IF Head(s) = "\r"
       THEN IF Len(s) > 1 /\ s[2] = "\n"
            THEN <<"\n">> \o TranslateNewlines(Tail(Tail(s)))
            ELSE <<"\n">> \o TranslateNewlines(Tail(s))
       ELSE <<Head(s)>> \o TranslateNewlines(Tail(s))

(***************************************************************************)
(* JSON values as json.loads returns them.                                 *)
(***************************************************************************)
None == [t |-> "null"]
JNum(n) == [t |-> "num", n |-> n]
JStr(s) == [t |-> "str", s |-> s]
JList(l) == [t |-> "list", l |-> l]
JDict(d) == [t |-> "dict", d |-> d]

IsList(v) == v.t = "list"
IsDict(v) == v.t = "dict"
IsStr(v) == v.t = "str"

\* Python truthiness (bool(v))
Truthy(v) ==
  CASE v.t = "null" -> FALSE
    [] v.t = "num" -> v.n # 0
    [] v.t = "str" -> v.s # <<>>
    [] v.t = "list" -> v.l # <<>>
    [] v.t = "dict" -> DOMAIN v.d # {}

\* key in data
HasKey(v, k) == k \in DOMAIN v.d

\* data.get(k, default)
Get(v, k, default) == IF HasKey(v, k) THEN v.d[k] ELSE default

\* len(data) of a dict
DictLen(v) == Cardinality(DOMAIN v.d)

Digits == <<"0", "1", "2", "3", "4", "5", "6", "7", "8", "9">>

RECURSIVE NatStr(_)
NatStr(n) == IF n < 10 THEN <<Digits[n + 1]>> ELSE NatStr(n \div 10) \o <<Digits[(n % 10) + 1]>>

\* repr(v) of a scalar, as it appears inside str(list)
Repr(v) ==
  CASE v.t = "str" -> <<"'">> \o v.s \o <<"'">>
    [] v.t = "num" -> NatStr(v.n)
    [] v.t = "null" -> <<"N", "o", "n", "e">>

RECURSIVE ReprJoin(_)
ReprJoin(l) ==
  IF l = <<>> THEN <<>>
  ELSE IF Len(l) = 1 THEN Repr(l[1])
  ELSE Repr(l[1]) \o <<",", " ">> \o ReprJoin(Tail(l))

\* str(v) of a title value: a scalar, or a list of scalars
Str(v) ==
  CASE v.t = "str" -> v.s
    [] v.t = "num" -> NatStr(v.n)
    [] v.t = "null" -> <<"N", "o", "n", "e">>
    [] v.t = "list" -> <<"[">> \o ReprJoin(v.l) \o <<"]">>

\* a or b
Or(a, b) == IF Truthy(a) THEN a ELSE b

(***************************************************************************)
(* save_results: the item count (poll_results.py 209-220).                 *)
(***************************************************************************)
ListKeys == <<"items", "results", "data", "products">>

\* for key in [...]: if key in data and isinstance(data[key], list): ...; break
\* 0 when the loop ends without a break
FirstListKey(data) ==
  LET hits == {i \in 1..Len(ListKeys) :
                 HasKey(data, ListKeys[i]) /\ IsList(data.d[ListKeys[i]])}
  IN IF hits = {} THEN 0 ELSE CHOOSE i \in hits : \A j \in hits : i <= j

CountAfterKeys(data) ==
  IF FirstListKey(data) = 0 THEN 0 ELSE Len(data.d[ListKeys[FirstListKey(data)]].l)

DictCount(data) ==
  IF CountAfterKeys(data) = 0
  THEN (IF Truthy(data) THEN DictLen(data) ELSE 0)
  ELSE CountAfterKeys(data)

ItemCount(data) ==
  IF IsList(data) THEN Len(data.l)
  ELSE IF IsDict(data) THEN DictCount(data)
  ELSE 0

(***************************************************************************)
(* extract_product_titles (poll_results.py 148-189).  The result is a      *)
(* Python list, here a sequence of JSON values.                            *)
(***************************************************************************)
TitleKeys == <<"title", "product_title", "name", "product_name">>

\* items after lines 162-171; None when nothing was assigned
FindItems(data) ==
  IF IsList(data) THEN data
  ELSE IF IsDict(data) /\ FirstListKey(data) # 0 THEN data.d[ListKeys[FirstListKey(data)]]
  ELSE None

\* [data.get("title", "N/A")[:100]]; slicing anything but a str or a list
\* raises, and the except clause returns []
DictTitle(data) ==
  LET v == data.d["title"]
  IN IF IsStr(v) THEN <<JStr(Slice(v.s, TitleLimit))>>
     ELSE IF IsList(v) THEN <<JList(Slice(v.l, TitleLimit))>>
     ELSE <<>>

\* mutant of ItemTitle: the title is not cut to 100 characters
ItemTitleNoTruncate(item) ==
  IF ~IsDict(item) THEN <<>>
  ELSE LET hits == {i \in 1..Len(TitleKeys) : HasKey(item, TitleKeys[i])}
       IN IF hits = {} THEN <<>>
          ELSE LET k == CHOOSE i \in hits : \A j \in hits : i <= j
               IN <<JStr(Str(item.d[TitleKeys[k]]))>>

\* the inner loop over title_key, for one item
ItemTitle(item) ==
  IF ~IsDict(item) THEN <<>>
  ELSE LET hits == {i \in 1..Len(TitleKeys) : HasKey(item, TitleKeys[i])}
       IN IF hits = {} THEN <<>>
          ELSE LET k == CHOOSE i \in hits : \A j \in hits : i <= j
               IN <<JStr(Slice(Str(item.d[TitleKeys[k]]), TitleLimit))>>

RECURSIVE CollectTitles(_)
CollectTitles(items) ==
  IF items = <<>> THEN <<>> ELSE ItemTitle(Head(items)) \o CollectTitles(Tail(items))

ItemsTitles(items) ==
  IF Truthy(items) THEN Slice(CollectTitles(Slice(items.l, SampleSize)), SampleSize) ELSE <<>>

extract_product_titles(data) ==
  IF IsDict(data) /\ ~Truthy(FindItems(data)) /\ HasKey(data, "title")
  THEN DictTitle(data)
  ELSE ItemsTitles(FindItems(data))

(***************************************************************************)
(* One poll attempt (poll_results.py 78-139).  A response is               *)
(*   [kind |-> "exception"]                      requests.get raised       *)
(*   [kind |-> "http", status_code, text, json]  json = NoJson when the    *)
(*                                                text is not valid JSON   *)
(***************************************************************************)
NoJson == [t |-> "nojson"]

RunningStatuses == {<<"r", "u", "n", "n", "i", "n", "g">>,
                    <<"p", "e", "n", "d", "i", "n", "g">>,
                    <<"p", "r", "o", "c", "e", "s", "s", "i", "n", "g">>}

Wait(why) == [done |-> FALSE, why |-> why, data |-> None]
Data(v) == [done |-> TRUE, why |-> "data", data |-> v]

\* mutant of StatusCheck: the status is compared without .lower()
StatusCheckCaseSensitive(response_data) ==
  LET status == Get(response_data, "status", JStr(<<>>))
  IN IF ~IsStr(status) THEN "raise"
     ELSE IF status.s \in RunningStatuses THEN "running"
     ELSE "pass"

\* lines 112-117: .lower() on a status that is no str raises AttributeError,
\* which the except Exception clause (136-139) turns into one more wait
StatusCheck(response_data) ==
  LET status == Get(response_data, "status", JStr(<<>>))
  IN IF ~IsStr(status) THEN "raise"
     ELSE IF Lower(status.s) \in RunningStatuses THEN "running"
     ELSE "pass"

ClassifyJson(response_data) ==
  IF IsDict(response_data) /\ StatusCheck(response_data) = "raise" THEN Wait("unexpected error")
  ELSE IF IsDict(response_data) /\ StatusCheck(response_data) = "running" THEN Wait("status")
  ELSE IF IsDict(response_data) /\ ~Truthy(response_data) THEN Wait("empty object")
  ELSE Data(response_data)

ClassifyText(text) ==
  IF Contains(Lower(Strip(text)), <<"r", "u", "n", "n", "i", "n", "g">>) \/ Lower(Strip(text)) = <<>>
  THEN Wait("text running")
  ELSE Wait("unexpected format")

\* mutant of PollOutcome: a network error ends the loop with None
PollOutcomeNetworkFatal(resp) ==
  IF resp.kind = "exception" THEN Data(None)
  ELSE IF resp.status_code # HTTP_OK THEN Wait("status code")
  ELSE IF resp.text = <<>> \/ Strip(resp.text) = <<>> THEN Wait("empty response")
  ELSE IF resp.json = NoJson THEN ClassifyText(resp.text)
  ELSE ClassifyJson(resp.json)

PollOutcome(resp) ==
  IF resp.kind = "exception" THEN Wait("network error")
  ELSE IF resp.status_code # HTTP_OK THEN Wait("status code")
  ELSE IF resp.text = <<>> \/ Strip(resp.text) = <<>> THEN Wait("empty response")
  ELSE IF resp.json = NoJson THEN ClassifyText(resp.text)
  ELSE ClassifyJson(resp.json)

(***************************************************************************)
(* The trigger's handling of its one response (trigger_bright_data.py      *)
(* 43-89) and the exit status of the script (92-101).                      *)
(*   io = "ok" | "open_fails" | "write_fails": what the file system does   *)
(*   file: current_job.txt before the run (NoFile when it does not exist)  *)
(***************************************************************************)
NoFile == [t |-> "nofile"]
TextFile(text) == [t |-> "file", text |-> text]

\* mutant of ExtractId: the last lookup has a default
ExtractIdDefault(response_data) ==
  Or(Or(Get(response_data, "response_id", None), Get(response_data, "id", None)),
     Get(response_data, "job_id", JStr(<<"u", "n", "k", "n", "o", "w", "n">>)))

\* response_data.get("response_id") or response_data.get("id") or response_data.get("job_id")
ExtractId(response_data) ==
  Or(Or(Get(response_data, "response_id", None), Get(response_data, "id", None)),
     Get(response_data, "job_id", None))

\* lines 63-70: open(..., "w") truncates, f.write(response_id) needs a str;
\* IOError is caught and reported as a warning, TypeError is not caught here
SaveJobId(response_id, io, file) ==
  IF io = "open_fails" THEN [file |-> file, save |-> "open_fails"]
  ELSE IF ~IsStr(response_id) THEN [file |-> TextFile(<<>>), save |-> "type_error"]
  ELSE IF io = "write_fails" THEN [file |-> TextFile(<<>>), save |-> "write_fails"]
  ELSE [file |-> TextFile(response_id.s), save |-> "saved"]

Exit1(file, save) == [result |-> None, exit |-> 1, file |-> file, save |-> save]

\* result: what trigger_bright_data_collector returned (None also when it
\* called sys.exit itself); exit: the status of the process; save: what
\* became of the write to current_job.txt ("none": not attempted)
TriggerOutcome(resp, io, file) ==
  IF resp.kind = "exception" THEN Exit1(file, "none")
  ELSE IF resp.status_code # HTTP_OK THEN Exit1(file, "none")
  ELSE IF resp.json = NoJson THEN Exit1(file, "none")
  ELSE IF ~IsDict(resp.json) THEN Exit1(file, "none")
  ELSE IF ~Truthy(ExtractId(resp.json)) THEN Exit1(file, "none")
  ELSE LET id == ExtractId(resp.json)
           saved == SaveJobId(id, io, file)
       IN IF saved.save = "type_error" THEN Exit1(saved.file, saved.save)
          ELSE [result |-> id, exit |-> 0, file |-> saved.file, save |-> saved.save]

(***************************************************************************)
(* read_job_id (poll_results.py 15-41): None when the file is missing,     *)
(* unreadable or blank, else its text stripped.                            *)
(***************************************************************************)
\* mutant of read_job_id: the text is returned as read, not stripped
read_job_idNoStrip(file, io) ==
  IF file = NoFile THEN None
  ELSE IF io # "ok" THEN None
  ELSE IF Strip(TranslateNewlines(file.text)) = <<>> THEN None
  ELSE JStr(TranslateNewlines(file.text))

read_job_id(file, io) ==
  IF file = NoFile THEN None
  ELSE IF io # "ok" THEN None
  ELSE IF Strip(TranslateNewlines(file.text)) = <<>> THEN None
  ELSE JStr(Strip(TranslateNewlines(file.text)))

(***************************************************************************)
(* What the remote service sends: the body text of a JSON value            *)
(* (separators without spaces; a key is one symbol).                       *)
(***************************************************************************)
AllKeys == <<"status", "items", "results", "data", "products", "title",
             "product_title", "name", "product_name", "response_id", "id",
             "job_id", "price", "error">>

RECURSIVE Dumps(_)
RECURSIVE DumpsList(_)
RECURSIVE DumpsMembers(_, _)

Dumps(v) ==
  CASE v.t = "null" -> <<"n", "u", "l", "l">>
    [] v.t = "num" -> NatStr(v.n)
    [] v.t = "str" -> <<"\"">> \o v.s \o <<"\"">>
    [] v.t = "list" -> <<"[">> \o DumpsList(v.l) \o <<"]">>
    [] v.t = "dict" -> <<"{">> \o DumpsMembers(v.d, SelectSeq(AllKeys, LAMBDA k : k \in DOMAIN v.d)) \o <<"}">>

DumpsList(l) ==
  IF l = <<>> THEN <<>>
  ELSE IF Len(l) = 1 THEN Dumps(l[1])
  ELSE Dumps(l[1]) \o <<",">> \o DumpsList(Tail(l))

DumpsMembers(d, keys) ==
  IF keys = <<>> THEN <<>>
  ELSE <<"\"", keys[1], "\"", ":">> \o Dumps(d[keys[1]])
       \o (IF Len(keys) = 1 THEN <<>> ELSE <<",">> \o DumpsMembers(d, Tail(keys)))

NetworkError == [kind |-> "exception"]
HttpText(code, text) == [kind |-> "http", status_code |-> code, text |-> text, json |-> NoJson]
HttpJson(code, v) == [kind |-> "http", status_code |-> code, text |-> Dumps(v), json |-> v]

(***************************************************************************)
(* Inputs: texts, job identifiers, trigger responses, poll responses.      *)
(***************************************************************************)
running == <<"r", "u", "n", "n", "i", "n", "g">>
RUNNING == <<"R", "U", "N", "N", "I", "N", "G">>
Pending == <<"P", "e", "n", "d", "i", "n", "g">>
processing == <<"p", "r", "o", "c", "e", "s", "s", "i", "n", "g">>
done == <<"d", "o", "n", "e">>
LongTitle == [i \in 1..(TitleLimit + LongExtra) |-> IF i <= TitleLimit THEN "x" ELSE "y"]

j0 == <<"j", "0">>
j1 == <<"j", "1">>
j2 == <<"j", "2">>

OldFiles == {NoFile, TextFile(<<>>), TextFile(j0)}

Obj(d) == JDict(d)
T(s) == JDict([title |-> JStr(s)])

TriggerResponses ==
  { NetworkError,
    HttpText(500, <<"e", "r", "r">>),
    HttpText(HTTP_OK, <<"<", "h", "t", "m", "l", ">">>),
    HttpJson(HTTP_OK, Obj([response_id |-> JStr(j1), id |-> JStr(j2), job_id |-> JStr(j2)])),
    HttpJson(HTTP_OK, Obj([response_id |-> JStr(<<>>), id |-> JStr(j1), job_id |-> JStr(j2)])),
    HttpJson(HTTP_OK, Obj([response_id |-> JStr(<<" ", "j", "1", "\n">>)])),
    HttpJson(HTTP_OK, Obj([id |-> JStr(<<"j", "\r", "1">>)])),
    HttpJson(HTTP_OK, Obj([job_id |-> JStr(<<" ", "\n">>)])),
    HttpJson(HTTP_OK, Obj([response_id |-> JNum(7)])),
    HttpJson(HTTP_OK, Obj([error |-> JStr(<<"n", "o">>)])),
    HttpJson(HTTP_OK, Obj([response_id |-> JStr(<<>>), id |-> None, job_id |-> JNum(0)])),
    HttpJson(HTTP_OK, JList(<<JStr(j1)>>)) }

\* bodies of the status endpoint that the poll loop takes for "still running"
RunningPayloads ==
  { Obj([status |-> JStr(running)]),
    Obj([status |-> JStr(RUNNING), items |-> JList(<<T(<<"A">>)>>)]),
    Obj([status |-> JStr(Pending), data |-> JList(<<T(<<"A">>), T(<<"B">>)>>)]),
    Obj([status |-> JStr(processing), title |-> JStr(<<"A">>)]),
    Obj([status |-> JNum(5), items |-> JList(<<T(<<"A">>)>>)]),
    Obj([status |-> None, title |-> JStr(<<"A">>)]),
    Obj(<<>>) }

\* bodies it returns as data
DataPayloads ==
  { JList(<<>>),
    Obj([items |-> JList(<<T(<<"A">>), T(<<"B">>), T(<<"C">>), T(<<"D">>)>>)]),
    Obj([status |-> JStr(done), results |-> JList(<<T(<<"A">>)>>)]),
    Obj([status |-> JStr(<<>>), title |-> JStr(<<"A">>)]),
    JStr(running),
    None }

\* more data, for save_results and extract_product_titles
SavePayloads ==
  DataPayloads \cup
  { JNum(0),
    Obj([price |-> JNum(0)]),
    Obj([title |-> JStr(<<"A">>)]),
    Obj([title |-> JStr(LongTitle)]),
    Obj([title |-> JNum(5), price |-> JNum(9)]),
    Obj([title |-> None]),
    Obj([title |-> JList(<<JStr(<<"A">>), JStr(<<"B">>)>>)]),
    Obj([title |-> Obj([name |-> JStr(<<"A">>)])]),
    Obj([name |-> JStr(<<"N">>), price |-> JNum(2)]),
    Obj([items |-> JList(<<>>)]),
    Obj([items |-> JList(<<>>), results |-> JList(<<T(<<"A">>), T(<<"B">>)>>), price |-> JNum(1)]),
    Obj([items |-> JList(<<>>), title |-> JStr(<<"B">>)]),
    Obj([results |-> JList(<<T(<<"A">>)>>), title |-> JStr(<<"B">>)]),
    Obj([items |-> JNum(5), data |-> JList(<<T(<<"A">>), T(<<"B">>)>>), products |-> JList(<<>>)]),
    Obj([items |-> Obj([title |-> JStr(<<"A">>)]), price |-> JNum(1), error |-> None]),
    Obj([items |-> JStr(<<"A">>), title |-> JStr(<<"B">>)]),
    Obj([data |-> JList(<<T(<<"A">>), T(<<"B">>)>>), results |-> JList(<<T(<<"C">>)>>)]),
    Obj([products |-> JList(<<Obj([name |-> JStr(<<"N">>), product_name |-> JStr(<<"P">>)]),
                              Obj([product_title |-> JStr(LongTitle), title |-> JNum(42)]),
                              Obj([price |-> JNum(3)]),
                              T(<<"D">>)>>)]),
    Obj([results |-> JList(<<Obj([product_title |-> JStr(LongTitle)]), Obj([product_name |-> None])>>)]),
    Obj([items |-> JList(<<JNum(1), JNum(2)>>)]),
    JList(<<JNum(5), T(<<"A">>), Obj([product_name |-> None]), T(<<"D">>)>>),
    JList(<<JStr(<<"A">>), JNum(1), None>>),
    JList(<<T(<<"A">>), T(<<"B">>),
            Obj([title |-> JList(<<JStr(<<"C">>), JNum(1)>>)]), T(<<"D">>), T(<<"E">>)>>),
    JList(<<Obj([name |-> JStr(<<"N">>), title |-> JStr(<<"A">>)]), JList(<<T(<<"B">>)>>)>>),
    JList(<<Obj(<<>>), Obj(<<>>), Obj(<<>>), T(<<"D">>)>>) }

PollResponses ==
  { NetworkError,
    HttpText(500, <<"e", "r", "r">>),
    HttpText(HTTP_OK, <<>>),
    HttpText(HTTP_OK, <<" ", "\n">>),
    HttpText(HTTP_OK, <<"J", "o", "b", " ">> \o RUNNING),
    HttpText(HTTP_OK, <<"<", "h", "t", "m", "l", ">">>) }
  \cup { HttpJson(HTTP_OK, v) : v \in RunningPayloads \cup DataPayloads }

Latencies == {0, MaxLatency}
TimeoutArgs == 0..MaxTimeoutMinutes
IntervalArgs == {0, IntervalStep, 2 * IntervalStep}
IoFaults == {"ok", "open_fails", "write_fails"}

(***************************************************************************)
(* State.                                                                  *)
(*  trigger run: tpc, posts, tresp, trigger_result, texit, tsave           *)
(*  files:       job_file (current_job.txt), results_file                  *)
(*               (amazon_results.json); job_file0 and results_file0 keep   *)
(*               what they held before any run                             *)
(*  poll run:    ppc, response_id, timeout_seconds, poll_interval, now,    *)
(*               start_time, end_time, attempt, results, pexit,            *)
(*               item_count, titles                                        *)
(*  the poll's traffic: gets (GET requests issued), sleeps (waits of       *)
(*               poll_interval), lastResp and lastLatency (the last        *)
(*               response and how long it took), lastStart (when the last  *)
(*               iteration began), cause (why the loop returned)           *)
(***************************************************************************)
VARIABLES tpc, posts, tresp, trigger_result, texit, tsave,
          job_file, job_file0, results_file, results_file0,
          ppc, response_id, timeout_seconds, poll_interval, now,
          start_time, end_time, attempt, results, pexit, item_count, titles,
          gets, sleeps, lastResp, lastLatency, lastStart, cause

triggerVars == <<tpc, posts, tresp, trigger_result, texit, tsave>>
fileVars == <<job_file, job_file0, results_file, results_file0>>
argVars == <<response_id, timeout_seconds, poll_interval, start_time, end_time>>
loopVars == <<now, attempt, gets, sleeps, lastResp, lastLatency, lastStart>>
mainVars == <<results, cause, pexit, item_count, titles>>
vars == <<triggerVars, fileVars, ppc, argVars, loopVars, mainVars>>

NoResp == [kind |-> "none"]
OldResults == [dumped |-> JList(<<JNum(1)>>)]

Init ==
  /\ tpc = "ready" /\ posts = 0 /\ tresp = NoResp /\ trigger_result = None
  /\ texit = -1 /\ tsave = "none"
  /\ job_file \in OldFiles /\ job_file0 = job_file
  /\ results_file \in {NoFile, OldResults} /\ results_file0 = results_file
  /\ ppc = "ready" /\ response_id = None /\ timeout_seconds = 0 /\ poll_interval = 0
  /\ now = 0 /\ start_time = 0 /\ end_time = 0 /\ attempt = 0
  /\ results = None /\ cause = "none" /\ pexit = -1 /\ item_count = -1 /\ titles = <<>>
  /\ gets = 0 /\ sleeps = 0 /\ lastResp = NoResp /\ lastLatency = 0 /\ lastStart = 0

(***************************************************************************)
(* python trigger_bright_data.py: one POST, then the handling of its       *)
(* response and the exit of the script.                                    *)
(***************************************************************************)
Trigger ==
  /\ tpc = "ready" /\ ppc = "ready"
  /\ \E resp \in TriggerResponses, io \in IoFaults :
       LET o == TriggerOutcome(resp, io, job_file)
       IN /\ posts' = posts + 1
          /\ tresp' = resp
          /\ trigger_result' = o.result
          /\ texit' = o.exit
          /\ tsave' = o.save
          /\ job_file' = o.file
  /\ tpc' = "exited"
  /\ UNCHANGED <<job_file0, results_file, results_file0, ppc, argVars, loopVars, mainVars>>

\* mutant of HasJobId: main goes on without a job id
HasJobIdUnchecked(file, io) == io = "ok"

\* 241-242: response_id = read_job_id(...); if not response_id: sys.exit(1)
HasJobId(file, io) == Truthy(read_job_id(file, io))

\* mutant of BeforeDeadline: the loop stops when a wait would pass the deadline
BeforeDeadlineEarly == now + poll_interval < end_time

\* 74: while datetime.now() < end_time
BeforeDeadline == now < end_time

\* mutant of NoResults: the result is saved without the test for None
NoResultsNever(r) == FALSE

\* 252: results is None
NoResults(r) == r = None

(***************************************************************************)
(* python poll_results.py: main (235-276).                                 *)
(***************************************************************************)
\* 241-243: no job id, exit status 1
MainNoJobId ==
  /\ ppc = "ready"
  /\ \E io \in {"ok", "open_fails"} :
       /\ ~HasJobId(job_file, io)
       /\ (io = "open_fails" => job_file # NoFile)
  /\ ppc' = "exited" /\ pexit' = 1
  /\ UNCHANGED <<triggerVars, fileVars, argVars, loopVars, results, cause, item_count, titles>>

\* 241-250 and 57-67: the id is read, the arguments parsed, the loop set up
PollStart ==
  /\ ppc = "ready"
  /\ HasJobId(job_file, "ok")
  /\ \E timeout_minutes \in TimeoutArgs, interval \in IntervalArgs :
       /\ timeout_seconds' = timeout_minutes * SecondsPerMinute
       /\ poll_interval' = interval
       /\ end_time' = now + timeout_minutes * SecondsPerMinute
  /\ response_id' = read_job_id(job_file, "ok")
  /\ start_time' = now
  /\ ppc' = "loop"
  /\ UNCHANGED <<triggerVars, fileVars, loopVars, mainVars>>

\* 74-139, an iteration that ends in time.sleep(poll_interval); continue
PollWait ==
  /\ ppc = "loop" /\ BeforeDeadline /\ attempt < MaxAttempts
  /\ \E resp \in PollResponses, latency \in Latencies :
       /\ ~PollOutcome(resp).done
       /\ lastResp' = resp /\ lastLatency' = latency
       /\ now' = now + latency + poll_interval
  /\ attempt' = attempt + 1 /\ gets' = gets + 1 /\ sleeps' = sleeps + 1
  /\ lastStart' = now
  /\ UNCHANGED <<triggerVars, fileVars, ppc, argVars, mainVars>>

\* 74-129, the iteration that returns response_data
PollData ==
  /\ ppc = "loop" /\ BeforeDeadline /\ attempt < MaxAttempts
  /\ \E resp \in PollResponses, latency \in Latencies :
       /\ PollOutcome(resp).done
       /\ lastResp' = resp /\ lastLatency' = latency
       /\ now' = now + latency
       /\ results' = PollOutcome(resp).data
  /\ attempt' = attempt + 1 /\ gets' = gets + 1
  /\ lastStart' = now
  /\ cause' = "data" /\ ppc' = "returned"
  /\ UNCHANGED <<triggerVars, fileVars, argVars, sleeps, pexit, item_count, titles>>

\* 74 and 141-145: the deadline has passed, return None
PollTimeout ==
  /\ ppc = "loop" /\ ~BeforeDeadline
  /\ results' = None /\ cause' = "timeout" /\ ppc' = "returned"
  /\ UNCHANGED <<triggerVars, fileVars, argVars, loopVars, pexit, item_count, titles>>

\* 252-257
MainNoResults ==
  /\ ppc = "returned" /\ NoResults(results)
  /\ ppc' = "exited" /\ pexit' = 1
  /\ UNCHANGED <<triggerVars, fileVars, argVars, loopVars, results, cause, item_count, titles>>

\* 260-276 with save_results 203-228
MainSave ==
  /\ ppc = "returned" /\ ~NoResults(results)
  /\ results_file' = [dumped |-> results]
  /\ item_count' = ItemCount(results)
  /\ titles' = extract_product_titles(results)
  /\ ppc' = "exited" /\ pexit' = 0
  /\ UNCHANGED <<triggerVars, job_file, job_file0, results_file0, argVars, loopVars, results, cause>>

\* 206 and 230-232: the file cannot be opened, save_results re-raises, the
\* script dies with a traceback and exit status 1
MainSaveFails ==
  /\ ppc = "returned" /\ ~NoResults(results)
  /\ ppc' = "exited" /\ pexit' = 1
  /\ UNCHANGED <<triggerVars, fileVars, argVars, loopVars, results, cause, item_count, titles>>

Next ==
  \/ Trigger
  \/ MainNoJobId
  \/ PollStart
  \/ PollWait
  \/ PollData
  \/ PollTimeout
  \/ MainNoResults
  \/ MainSave
  \/ MainSaveFails

Spec == Init /\ [][Next]_vars

(***************************************************************************)
(* The handling of the data alone (main 252-276): every run starts where   *)
(* the first poll attempt has just returned a payload.                     *)
(***************************************************************************)
InitSave ==
  /\ tpc = "ready" /\ posts = 0 /\ tresp = NoResp /\ trigger_result = None
  /\ texit = -1 /\ tsave = "none"
  /\ job_file = TextFile(j0) /\ job_file0 = job_file
  /\ results_file \in {NoFile, OldResults} /\ results_file0 = results_file
  /\ ppc = "returned" /\ response_id = read_job_id(job_file, "ok")
  /\ timeout_seconds = SecondsPerMinute /\ poll_interval = IntervalStep
  /\ start_time = 0 /\ end_time = SecondsPerMinute
  /\ \E v \in SavePayloads, latency \in Latencies :
       /\ PollOutcome(HttpJson(HTTP_OK, v)).done
       /\ lastResp = HttpJson(HTTP_OK, v) /\ lastLatency = latency /\ now = latency
       /\ results = PollOutcome(HttpJson(HTTP_OK, v)).data
  /\ attempt = 1 /\ gets = 1 /\ sleeps = 0 /\ lastStart = 0
  /\ cause = "data" /\ pexit = -1 /\ item_count = -1 /\ titles = <<>>

NextSave ==
  \/ MainNoResults
  \/ MainSave
  \/ MainSaveFails

SpecSave == InitSave /\ [][NextSave]_vars

(***************************************************************************)
(* The claims.  Each classification below is written from the claim's      *)
(* wording, not from the code.                                             *)
(***************************************************************************)
IsHttp(resp) == resp.kind = "http"
HasJson(resp) == IsHttp(resp) /\ resp.json # NoJson
Blank(text) == \A i \in 1..Len(text) : text[i] \in Whitespace

\* a status field that is running, pending or processing in any letter case
RunningStatus(v) ==
  /\ IsDict(v) /\ "status" \in DOMAIN v.d /\ IsStr(v.d["status"])
  /\ \E w \in RunningStatuses :
       /\ Len(w) = Len(v.d["status"].s)
       /\ \A i \in 1..Len(w) : LowerChar(v.d["status"].s[i]) = w[i]

\* the outcomes C1 lists as RUNNING
ListedRunning(resp) ==
  \/ resp.kind = "exception"
  \/ IsHttp(resp) /\ resp.status_code # HTTP_OK
  \/ IsHttp(resp) /\ Blank(resp.text)
  \/ IsHttp(resp) /\ resp.json = NoJson
  \/ HasJson(resp) /\ RunningStatus(resp.json)

Elapsed == now - start_time

\* C1: for N outcomes classified RUNNING (non-200, empty body, unparseable
\* body, running status, network exception) followed by one DONE response
\* before the deadline, the loop issues exactly N+1 GETs, waits poll_interval
\* once between consecutive requests, aborts on none of the RUNNING outcomes,
\* and returns the DONE response's parsed payload.  As an invariant: one GET
\* per attempt; after a listed RUNNING outcome the loop has slept once per GET
\* and has not returned it (it ends only by the deadline); the next request
\* goes out exactly poll_interval after the last response; and when the loop
\* returns data it made one more GET than waits, began that attempt before
\* the deadline, and returns that response's parsed body.
C1_PollRetriesUntilDone ==
  /\ gets = attempt /\ sleeps <= gets /\ gets <= sleeps + 1
  /\ (lastResp # NoResp /\ ListedRunning(lastResp) =>
        /\ sleeps = gets
        /\ cause # "data"
        /\ now = lastStart + lastLatency + poll_interval
        /\ (ppc # "loop" => cause = "timeout" /\ now >= end_time))
  /\ (cause = "data" =>
        /\ gets = sleeps + 1
        /\ lastStart < end_time
        /\ HasJson(lastResp) /\ results = lastResp.json
        /\ (gets >= 2 => lastStart >= start_time + (gets - 1) * poll_interval))

C1_Witness ==
  /\ cause = "data" /\ gets = 3 /\ sleeps = 2 /\ poll_interval = IntervalStep
  /\ results = Obj([items |-> JList(<<T(<<"A">>), T(<<"B">>), T(<<"C">>), T(<<"D">>)>>)])

TimedOut == ppc \in {"returned", "exited"} /\ cause = "timeout"

FinalData(resp) ==
  /\ HasJson(resp) /\ resp.status_code = HTTP_OK
  /\ ~Blank(resp.text)
  /\ ~(IsDict(resp.json) /\ DOMAIN resp.json.d = {})
  /\ ~RunningStatus(resp.json)

\* C3 as claimed: every HTTP 200 response whose body parses as JSON, is
\* non-empty and, when an object, has no status field equal to
\* running/pending/processing (whatever the field's value or type) is DONE:
\* the loop returns that parsed body on that attempt without waiting.
C3_FinalDataIsDone ==
  lastResp # NoResp /\ FinalData(lastResp) =>
    cause = "data" /\ results = lastResp.json /\ sleeps = gets - 1

\* C4: a response whose JSON object has a status equal, in any letter case,
\* to running, pending or processing is RUNNING whatever its other fields:
\* the loop does not return that body, it waits one poll interval and goes
\* back to the head of the loop.
C4_RunningStatusWaits ==
  lastResp # NoResp /\ HasJson(lastResp) /\ RunningStatus(lastResp.json) =>
    /\ cause # "data" /\ results = None
    /\ sleeps = gets
    /\ now = lastStart + lastLatency + poll_interval
    /\ (ppc = "loop" \/ TimedOut)

C4_Witness ==
  /\ ppc = "loop" /\ poll_interval > 0 /\ BeforeDeadline
  /\ lastResp = HttpJson(HTTP_OK, Obj([status |-> JStr(RUNNING), items |-> JList(<<T(<<"A">>)>>)]))

TriggerSucceeded == tpc = "exited" /\ texit = 0 /\ trigger_result # None

NoIdentifier(v) ==
  \/ ~IsDict(v)
  \/ \A k \in {"response_id", "id", "job_id"} :
       \/ k \notin DOMAIN v.d
       \/ v.d[k] \in {None, JStr(<<>>), JNum(0)}

TriggerFailure(resp) ==
  \/ resp.kind = "exception"
  \/ IsHttp(resp) /\ resp.status_code # HTTP_OK
  \/ IsHttp(resp) /\ resp.status_code = HTTP_OK /\ resp.json = NoJson
  \/ HasJson(resp) /\ resp.status_code = HTTP_OK /\ NoIdentifier(resp.json)

\* C6: on a non-200 status, a network failure, a JSON parse failure or a 200
\* response without an identifier, the trigger exits non-zero after exactly
\* one POST and current_job.txt is neither created nor modified.
C6_TriggerFailureIsFatal ==
  tpc = "exited" /\ TriggerFailure(tresp) =>
    texit # 0 /\ texit # -1 /\ posts = 1 /\ job_file = job_file0

C6_Witness ==
  /\ tpc = "exited" /\ job_file0 = TextFile(j0) /\ texit = 1
  /\ tresp = HttpJson(HTTP_OK, Obj([response_id |-> JStr(<<>>), id |-> None, job_id |-> JNum(0)]))

\* C7: when current_job.txt is missing or empty, the poll's main exits with
\* status 1 and no request is made in that run.
C7_NoJobFileNoRequest ==
  (job_file = NoFile \/ job_file = TextFile(<<>>)) =>
    /\ gets = 0 /\ ppc \in {"ready", "exited"}
    /\ (ppc = "exited" => pexit = 1)

C7_Witness ==
  ppc = "exited" /\ job_file = TextFile(<<>>) /\ job_file0 = TextFile(j0) /\ pexit = 1

\* C8: amazon_results.json is written only after the poll loop has returned
\* a parsed DONE payload; a run that ends with no job identifier or in the
\* poll timeout exits with status 1 and leaves the file as it was.
C8_ResultsOnlyAfterDone ==
  /\ (results_file # results_file0 =>
        /\ cause = "data" /\ HasJson(lastResp) /\ results = lastResp.json
        /\ results # None /\ results_file = [dumped |-> results]
        /\ ppc = "exited" /\ pexit = 0)
  /\ (ppc = "exited" /\ (gets = 0 \/ cause = "timeout") =>
        pexit = 1 /\ results_file = results_file0)
  /\ (ppc = "exited" /\ pexit = 0 => results_file = [dumped |-> results])

C8_Witness ==
  /\ ppc = "exited" /\ cause = "timeout" /\ gets >= 1 /\ pexit = 1
  /\ results_file0 = OldResults /\ results_file = OldResults

\* the count C9 claims
ClaimedListField(v) ==
  IF "items" \in DOMAIN v.d /\ IsList(v.d["items"]) THEN "items"
  ELSE IF "results" \in DOMAIN v.d /\ IsList(v.d["results"]) THEN "results"
  ELSE IF "data" \in DOMAIN v.d /\ IsList(v.d["data"]) THEN "data"
  ELSE IF "products" \in DOMAIN v.d /\ IsList(v.d["products"]) THEN "products"
  ELSE "none"

ClaimedCount(v) ==
  IF IsList(v) THEN Len(v.l)
  ELSE IF ClaimedListField(v) # "none" THEN Len(v.d[ClaimedListField(v)].l)
  ELSE Cardinality(DOMAIN v.d)

Saved == ppc = "exited" /\ pexit = 0

\* C9 as claimed: the item count is the array length for a top-level array,
\* for an object the length of the first list-valued field among items,
\* results, data, products whatever that length is, and the object's key
\* count only when none of those fields is list-valued.
C9_ItemCount ==
  Saved /\ (IsList(results) \/ IsDict(results)) => item_count = ClaimedCount(results)

\* the sample C10 claims
FirstTitleField(item) ==
  IF "title" \in DOMAIN item.d THEN "title"
  ELSE IF "product_title" \in DOMAIN item.d THEN "product_title"
  ELSE IF "name" \in DOMAIN item.d THEN "name"
  ELSE IF "product_name" \in DOMAIN item.d THEN "product_name"
  ELSE "none"

Titled(item) == IsDict(item) /\ FirstTitleField(item) # "none"

\* the item sequence: the top-level array, or the first list-valued field
ClaimedItems(v) ==
  IF IsList(v) THEN v.l
  ELSE IF IsDict(v) /\ ClaimedListField(v) # "none" THEN v.d[ClaimedListField(v)].l
  ELSE <<>>

FirstThree(items) == [i \in 1..(IF Len(items) < SampleSize THEN Len(items) ELSE SampleSize) |-> items[i]]

\* one value per titled item among the first three, in order
ClaimedTitles(v) ==
  LET first == FirstThree(ClaimedItems(v))
      titled == SelectSeq(first, Titled)
  IN [i \in 1..Len(titled) |->
        LET text == Str(titled[i].d[FirstTitleField(titled[i])])
        IN JStr([j \in 1..(IF Len(text) < TitleLimit THEN Len(text) ELSE TitleLimit) |-> text[j]])]

LoneTitle(v) == IsDict(v) /\ ClaimedItems(v) = <<>> /\ "title" \in DOMAIN v.d

====
